---- MODULE Spec2Model ----
(***************************************************************************)
(* ProcessRuntimeTracker (src/runtime_tracker.py): the store of predicted  *)
(* processes believed running (_active, a dict keyed by pid) and of the    *)
(* recently completed ones (_completed, a deque with maxlen).              *)
(*                                                                         *)
(* RuntimeRecord objects are mutable and shared by reference, so they live *)
(* in a heap (recs) and the dict and the deque hold record ids.  Times are *)
(* whole seconds; the identity tolerance of 1.0 s is Tolerance.            *)
(*                                                                         *)
(* Spec and SpecHistory run whole calls of the tracker one after another;  *)
(* SpecFacade runs the polling cycle of the handlers of src/main.py;       *)
(* SpecThreads runs the calls statement by statement in two threads.       *)
(***************************************************************************)
EXTENDS Integers, Sequences, FiniteSets

VARIABLES
    now,        \* the reading time.time() gives at this moment
    recs,       \* heap of RuntimeRecord objects, indexed by record id
    active,     \* self._active: dict pid -> record, in insertion order
    completed,  \* self._completed: deque(maxlen = completed_max) of records
    completed_max, \* the constructor's completed_max, fixed at construction
    closed,     \* history variable: every record ever closed, in order
    last,       \* the latest call: its arguments, clock reading and result
    cycle,      \* main.py: the polling cycle of a handler and its locals
    threads     \* the calls in progress in the server's threads, with locals

vars == <<now, recs, active, completed, completed_max, closed, last,
          cycle, threads>>

(* ------------------------------ bounds -------------------------------- *)
MaxTime == 1
\* records allocated in one run
MaxRecs == 2
\* records allocated in one run of the history workload
MaxHistRecs == 3
\* largest completed_max a tracker is constructed with
MaxCap == 2

(* ----------------------------- constants ------------------------------ *)
\* abs(...) > 1.0 in update_running and in mark_missing
Tolerance == 1

None == -1

Pids == {1, 2}
CreateTimes == {0, 1, 2}
\* The calls update_running(pid, name, create_time, predicted) a caller makes.
\* Pid 1 is observed with every name, prediction and creation time; pid 2
\* is a second process of one name and one creation time.
Observations ==
    {[pid |-> 1, name |-> n.name, create_time |-> c, predicted |-> n.predicted] :
        n \in {[name |-> "a", predicted |-> 1], [name |-> "b", predicted |-> 2]},
        c \in CreateTimes}
    \cup {[pid |-> 2, name |-> "a", create_time |-> 1, predicted |-> 1]}

(* ---------------------------- RuntimeRecord --------------------------- *)
RuntimeRecord(pid, name, create_time, predicted, first_seen, last_seen) ==
    [pid |-> pid, name |-> name, create_time |-> create_time,
     predicted |-> predicted, first_seen |-> first_seen,
     last_seen |-> last_seen, actual_duration |-> None, completed_at |-> None]

Abs(x) == IF x < 0 THEN -x ELSE x

Max(a, b) == IF a >= b THEN a ELSE b

\* RuntimeRecord.elapsed(now)
elapsed(r, t) ==
    IF r.actual_duration # None THEN r.actual_duration
    ELSE Max(t - r.create_time, 0)

\* RuntimeRecord.status
status(r) == IF r.actual_duration # None THEN "completed" ELSE "running"

(* ------------------------- dict and deque ----------------------------- *)
\* self._active.get(pid): the record id under pid, 0 for None
ActiveGet(act, pid) ==
    IF \E i \in 1..Len(act) : act[i].pid = pid
    THEN act[CHOOSE i \in 1..Len(act) : act[i].pid = pid].rid
    ELSE 0

\* self._active[pid] = record: an existing key keeps its place
ActivePut(act, pid, rid) ==
    IF \E i \in 1..Len(act) : act[i].pid = pid
    THEN [i \in 1..Len(act) |->
            IF act[i].pid = pid THEN [pid |-> pid, rid |-> rid] ELSE act[i]]
    ELSE Append(act, [pid |-> pid, rid |-> rid])

\* pop leaving the key in the dict (a get)
ActivePopKeep(act, pid) == act

\* self._active.pop(pid, None): the dict without the key
ActivePop(act, pid) == SelectSeq(act, LAMBDA e : e.pid # pid)

\* list(self._active.keys())
ActiveKeys(act) == [i \in 1..Len(act) |-> act[i].pid]

ActiveRids(act) == {act[i].rid : i \in 1..Len(act)}

\* a full deque refusing the new entry instead of dropping the oldest
DequeAppendKeepOldest(q, maxlen, x) ==
    IF Len(q) >= maxlen THEN q ELSE Append(q, x)

\* DequeAppend evicting whatever the deque holds, full or not
DequeAppendDropAll(q, maxlen, x) == IF maxlen = 0 THEN <<>> ELSE <<x>>

\* deque(maxlen = completed_max).append(x): the oldest entry falls out
DequeAppend(q, maxlen, x) ==
    IF maxlen = 0 THEN <<>>
    ELSE IF Len(q) >= maxlen THEN Append(Tail(q), x)
    ELSE Append(q, x)

(* --------------------------- liveness check --------------------------- *)
\* What psutil.Process(pid) / proc.create_time() can do for a pid:
\*   Alive(ct)  the process exists and was created at ct
\*   Gone       psutil.NoSuchProcess
\*   Denied     psutil.AccessDenied
\*   Error      any other exception (mark_missing has no handler for it)
NotAsked == [kind |-> "NotAsked", ct |-> 0]
Answers ==
    {[kind |-> k, ct |-> 0] : k \in {"Gone", "Denied", "Error"}}
    \cup {[kind |-> "Alive", ct |-> c] : c \in CreateTimes}

NoCall ==
    [op |-> "none", pid |-> 0, name |-> "", ct |-> 0, pred |-> 0,
     ans |-> [p \in Pids |-> NotAsked], raised |-> FALSE,
     ret |-> None, sret |-> "", list |-> <<>>, rid |-> 0]

\* no polling cycle begun: the locals of predict_for_top_processes / ws_live
NoCycle ==
    [handler |-> "none", pc |-> "idle", selected |-> <<>>, i |-> 1,
     active_pids |-> <<>>]

\* the threads that serve requests (the event loop and the threadpool)
Threads == {1, 2}

\* a thread that is in no call of the tracker, and the locals of a call
IdleThread ==
    [pc |-> "idle", pid |-> 0, name |-> "", ct |-> 0, pred |-> 0, t |-> 0,
     S |-> {}, keys |-> <<>>, rec |-> 0, checked |-> 0, list |-> <<>>,
     seen |-> <<>>]

Init ==
    /\ now = 0
    /\ recs = <<>>
    /\ active = <<>>
    /\ completed = <<>>
    /\ completed_max \in 1..MaxCap
    /\ closed = <<>>
    /\ last = NoCall
    /\ cycle = NoCycle
    /\ threads = [th \in Threads |-> IdleThread]

\* time.time() between two calls: the clock does not go back
Tick ==
    /\ now < MaxTime
    /\ now' = now + 1
    /\ UNCHANGED <<recs, active, completed, completed_max, closed, last>>
    /\ UNCHANGED <<cycle, threads>>

(* --------------------------- update_running --------------------------- *)
Store == [recs |-> recs, active |-> active, completed |-> completed,
          maxlen |-> completed_max, closed |-> closed,
          raised |-> FALSE, asked |-> {}]

\* _replace_record closing the record it replaces into the history
replace_record_closing(st, pid, name, create_time, predicted, t) ==
    LET old == ActiveGet(st.active, pid)
        st1 == IF old = 0 THEN st
               ELSE [st EXCEPT
                        !.recs[old] = [@ EXCEPT
                            !.completed_at = t,
                            !.actual_duration = Max(t - st.recs[old].create_time, 0)],
                        !.completed = DequeAppend(@, st.maxlen, old),
                        !.closed = Append(@, old)]
    IN  [st1 EXCEPT
            !.recs = Append(@, RuntimeRecord(pid, name, create_time, predicted, t, t)),
            !.active = ActivePut(@, pid, Len(st.recs) + 1)]

\* _replace_record: a fresh RuntimeRecord stored under pid
replace_record(st, pid, name, create_time, predicted, t) ==
    [st EXCEPT
        !.recs = Append(@, RuntimeRecord(pid, name, create_time, predicted, t, t)),
        !.active = ActivePut(@, pid, Len(st.recs) + 1)]

\* pid_reused with >= in place of >
pid_reused_boundary(record, create_time) ==
    Abs(record.create_time - create_time) >= Tolerance

\* update_running, line 55: the pid was reused for a new process
pid_reused(record, create_time) ==
    Abs(record.create_time - create_time) > Tolerance

\* update_running, lines 58-60: the same process, updated in place
refresh_record(st, rid, name, predicted, t) ==
    [st EXCEPT !.recs[rid] =
        [@ EXCEPT !.name = name, !.predicted = predicted, !.last_seen = t]]

update_running_store(st, pid, name, create_time, predicted, t) ==
    LET rid == ActiveGet(st.active, pid) IN
    IF rid = 0 THEN replace_record(st, pid, name, create_time, predicted, t)
    ELSE IF pid_reused(st.recs[rid], create_time)
         THEN replace_record(st, pid, name, create_time, predicted, t)
         ELSE refresh_record(st, rid, name, predicted, t)

update_running(pid, name, create_time, predicted) ==
    LET st == update_running_store(Store, pid, name, create_time, predicted, now) IN
    /\ recs' = st.recs
    /\ active' = st.active
    /\ last' = [NoCall EXCEPT !.op = "update_running", !.pid = pid,
                    !.name = name, !.ct = create_time, !.pred = predicted,
                    !.rid = ActiveGet(st.active, pid)]
    /\ UNCHANGED <<now, completed, completed_max, closed>>

(* ---------------------------- mark_missing ---------------------------- *)
\* should_close closing on AccessDenied as on NoSuchProcess
should_close_denied(answer, record) ==
    CASE answer.kind = "Alive" -> Abs(answer.ct - record.create_time) > Tolerance
      [] OTHER -> TRUE

\* should_close with >= in place of > (a difference of exactly 1.0 closes)
should_close_boundary(answer, record) ==
    CASE answer.kind = "Alive" -> Abs(answer.ct - record.create_time) >= Tolerance
      [] answer.kind = "Gone" -> TRUE
      [] OTHER -> FALSE

\* should_close never closing a live pid, whatever its creation time
should_close_alive_kept(answer, record) == answer.kind = "Gone"

\* lines 74-88: what the liveness check's answer decides for the record
should_close(answer, record) ==
    CASE answer.kind = "Alive" -> Abs(answer.ct - record.create_time) > Tolerance
      [] answer.kind = "Gone" -> TRUE
      [] OTHER -> FALSE

\* close_record leaving the record in the dict (no pop)
close_record_no_pop(st, pid, t) ==
    LET rid == ActiveGet(st.active, pid) IN
    IF rid = 0 THEN st
    ELSE [st EXCEPT
            !.recs[rid] = [@ EXCEPT
                !.completed_at = t,
                !.actual_duration = Max(t - st.recs[rid].create_time, 0)],
            !.completed = DequeAppend(@, st.maxlen, rid),
            !.closed = Append(@, rid)]

\* close_record without the clamp max(..., 0.0)
close_record_no_clamp(st, pid, t) ==
    LET rid == ActiveGet(st.active, pid) IN
    IF rid = 0 THEN st
    ELSE [st EXCEPT
            !.active = ActivePop(@, pid),
            !.recs[rid] = [@ EXCEPT
                !.completed_at = t,
                !.actual_duration = t - st.recs[rid].create_time],
            !.completed = DequeAppend(@, st.maxlen, rid),
            !.closed = Append(@, rid)]

\* lines 90-96: pop the record, complete it, append it to the deque
close_record(st, pid, t) ==
    LET rid == ActiveGet(st.active, pid) IN
    IF rid = 0 THEN st
    ELSE [st EXCEPT
            !.active = ActivePop(@, pid),
            !.recs[rid] = [@ EXCEPT
                !.completed_at = t,
                !.actual_duration = Max(t - st.recs[rid].create_time, 0)],
            !.completed = DequeAppend(@, st.maxlen, rid),
            !.closed = Append(@, rid)]

\* mark_loop without the test "pid in active_set": every active pid is
\* checked, listed or not
RECURSIVE mark_loop_unfiltered(_, _, _, _, _)
mark_loop_unfiltered(st, keys, S, ans, t) ==
    IF keys = <<>> THEN st
    ELSE LET pid == Head(keys)
             rid == ActiveGet(st.active, pid)
         IN  IF rid = 0
             THEN mark_loop_unfiltered(st, Tail(keys), S, ans, t)
             ELSE IF ans[pid].kind = "Error"
             THEN [st EXCEPT !.asked = @ \cup {pid}, !.raised = TRUE]
             ELSE LET st1 == [st EXCEPT !.asked = @ \cup {pid}]
                      st2 == IF should_close(ans[pid], st.recs[rid])
                             THEN close_record(st1, pid, t)
                             ELSE st1
                  IN  mark_loop_unfiltered(st2, Tail(keys), S, ans, t)

\* lines 66-96: the loop over list(self._active.keys())
RECURSIVE mark_loop(_, _, _, _, _)
mark_loop(st, keys, S, ans, t) ==
    IF keys = <<>> THEN st
    ELSE LET pid == Head(keys)
             rid == ActiveGet(st.active, pid)
         IN  IF pid \in S \/ rid = 0
             THEN mark_loop(st, Tail(keys), S, ans, t)
             ELSE IF ans[pid].kind = "Error"
             THEN [st EXCEPT !.asked = @ \cup {pid}, !.raised = TRUE]
             ELSE LET st1 == [st EXCEPT !.asked = @ \cup {pid}]
                      st2 == IF should_close(ans[pid], st.recs[rid])
                             THEN close_record(st1, pid, t)
                             ELSE st1
                  IN  mark_loop(st2, Tail(keys), S, ans, t)

mark_missing(S, ans) ==
    LET st == mark_loop(Store, ActiveKeys(active), S, ans, now) IN
    /\ recs' = st.recs
    /\ active' = st.active
    /\ completed' = st.completed
    /\ closed' = st.closed
    /\ last' = [NoCall EXCEPT !.op = "mark_missing",
                    !.ans = [p \in Pids |->
                                IF p \in st.asked THEN ans[p] ELSE NotAsked],
                    !.raised = st.raised]
    /\ UNCHANGED <<now, completed_max>>

\* the answers the liveness check may give in one call: one per active pid
\* that the list omits
AnswerMapsFrom(S, answers) ==
    LET missing == {p \in Pids : ActiveGet(active, p) # 0 /\ p \notin S} IN
    {[p \in Pids |-> IF p \in missing THEN g[p] ELSE NotAsked] :
        g \in [missing -> answers]}

AnswerMaps(S) == AnswerMapsFrom(S, Answers)

(* ------------------------------ lookups ------------------------------- *)
\* FirstCompleted scanning the deque from its new end: the latest record of
\* the pid
LastCompleted(st, pid) ==
    LET idx == {i \in 1..Len(st.completed) : st.recs[st.completed[i]].pid = pid} IN
    IF idx = {} THEN 0
    ELSE st.completed[CHOOSE i \in idx : \A j \in idx : i >= j]

\* the first record of the deque with this pid, 0 when there is none
FirstCompleted(st, pid) ==
    LET idx == {i \in 1..Len(st.completed) : st.recs[st.completed[i]].pid = pid} IN
    IF idx = {} THEN 0
    ELSE st.completed[CHOOSE i \in idx : \A j \in idx : i <= j]

\* current_elapsed looking in the history before the active set
current_elapsed_history_first(st, pid, t) ==
    IF FirstCompleted(st, pid) # 0
    THEN st.recs[FirstCompleted(st, pid)].actual_duration
    ELSE IF ActiveGet(st.active, pid) # 0
         THEN elapsed(st.recs[ActiveGet(st.active, pid)], t)
         ELSE None

current_elapsed_of(st, pid, t) ==
    LET rid == ActiveGet(st.active, pid) IN
    IF rid # 0 THEN elapsed(st.recs[rid], t)
    ELSE IF FirstCompleted(st, pid) # 0
         THEN st.recs[FirstCompleted(st, pid)].actual_duration
         ELSE None

status_for_of(st, pid) ==
    LET rid == ActiveGet(st.active, pid) IN
    IF rid # 0 THEN status(st.recs[rid])
    ELSE IF FirstCompleted(st, pid) # 0
         THEN status(st.recs[FirstCompleted(st, pid)])
         ELSE "unknown"

current_elapsed(pid) ==
    /\ last' = [NoCall EXCEPT !.op = "current_elapsed", !.pid = pid,
                    !.ret = current_elapsed_of(Store, pid, now)]
    /\ UNCHANGED <<now, recs, active, completed, completed_max, closed>>

status_for(pid) ==
    /\ last' = [NoCall EXCEPT !.op = "status_for", !.pid = pid,
                    !.sret = status_for_of(Store, pid)]
    /\ UNCHANGED <<now, recs, active, completed, completed_max, closed>>

\* recent_completions: list(self._completed)
recent_completions ==
    /\ last' = [NoCall EXCEPT !.op = "recent_completions",
                    !.list = completed]
    /\ UNCHANGED <<now, recs, active, completed, completed_max, closed>>
    /\ UNCHANGED <<cycle, threads>>

(* --------------------------- specifications -------------------------- *)
Observe ==
    \E o \in Observations :
        /\ update_running(o.pid, o.name, o.create_time, o.predicted)
        /\ Len(recs') <= MaxRecs
        /\ UNCHANGED <<cycle, threads>>

Reconcile ==
    \E S \in SUBSET Pids : \E ans \in AnswerMaps(S) :
        mark_missing(S, ans) /\ UNCHANGED <<cycle, threads>>

Elapsed == \E pid \in Pids : current_elapsed(pid) /\ UNCHANGED <<cycle, threads>>

Status == \E pid \in Pids : status_for(pid) /\ UNCHANGED <<cycle, threads>>

Next ==
    \/ Tick
    \/ Observe
    \/ Reconcile
    \/ Elapsed
    \/ Status
    \/ recent_completions

Spec == Init /\ [][Next]_vars

\* The history workload: more records, each process observed with one name
\* and creation time, each missing process either gone or inaccessible.
HistObservations ==
    {[pid |-> p, name |-> "a", create_time |-> 0, predicted |-> 1] : p \in Pids}

HistAnswers == {[kind |-> k, ct |-> 0] : k \in {"Gone", "Denied"}}

ObserveHist ==
    \E o \in HistObservations :
        /\ update_running(o.pid, o.name, o.create_time, o.predicted)
        /\ Len(recs') <= MaxHistRecs
        /\ UNCHANGED <<cycle, threads>>

ReconcileHist ==
    \E S \in SUBSET Pids : \E ans \in AnswerMapsFrom(S, HistAnswers) :
        mark_missing(S, ans) /\ UNCHANGED <<cycle, threads>>

NextHistory ==
    \/ Tick
    \/ ObserveHist
    \/ ReconcileHist
    \/ recent_completions

SpecHistory == Init /\ [][NextHistory]_vars

(* ----------------------- the handlers of main.py ---------------------- *)
\* One polling cycle of predict_for_top_processes ("rest") or of the loop
\* of ws_live ("ws"): the processes pick_top_processes enumerated, then per
\* process feature extraction, prediction and _runtime_metadata, then
\* runtime_tracker.mark_missing(active_pids).
Handlers == {"rest", "ws"}

\* the dicts list_processes yields; psutil gives create_time None when the
\* attribute could not be read
FacadeProcesses ==
    {[pid |-> 1, name |-> "a", create_time |-> 0],
     [pid |-> 2, name |-> "a", create_time |-> 1],
     [pid |-> 2, name |-> "a", create_time |-> None]}

\* selected: each pid at most once, in any order
Selections ==
    {<<>>} \cup {<<p>> : p \in FacadeProcesses}
    \cup {s \in {<<p, q>> : p \in FacadeProcesses, q \in FacadeProcesses} :
                s[1].pid # s[2].pid}

\* what happens to one process of selected:
\*   "ok"           features extracted and predict_completion returned
\*   "no_features"  compute_rr_features_for_pid returned None
\*   "raises"       compute_rr_features_for_pid or predict_completion raised
Outcomes == {"ok", "no_features", "raises"}

\* selected = pick_top_processes(...); items = []; active_pids = []
select_processes(handler, selected) ==
    /\ cycle.pc \in {"idle", "reconciled", "aborted"}
    /\ cycle' = [NoCycle EXCEPT !.handler = handler, !.pc = "loop",
                                !.selected = selected]
    /\ UNCHANGED <<now, recs, active, completed, completed_max, closed,
                   last, threads>>

\* the body of "for p in selected"
predict_item(outcome) ==
    /\ cycle.pc = "loop"
    /\ cycle.i <= Len(cycle.selected)
    /\ LET p == cycle.selected[cycle.i] IN
       CASE outcome = "no_features" ->
                /\ cycle' = [cycle EXCEPT !.i = @ + 1]
                /\ UNCHANGED <<now, recs, active, completed, completed_max,
                               closed, last>>
         [] outcome = "raises" ->
                /\ cycle' = IF cycle.handler = "rest"
                            THEN [cycle EXCEPT !.pc = "aborted"]
                            ELSE [cycle EXCEPT !.i = @ + 1]
                /\ UNCHANGED <<now, recs, active, completed, completed_max,
                               closed, last>>
         [] outcome = "ok" ->
                /\ IF p.create_time = None
                   THEN UNCHANGED <<now, recs, active, completed,
                                    completed_max, closed, last>>
                   ELSE /\ update_running(p.pid, p.name, p.create_time, 1)
                        /\ Len(recs') <= MaxRecs
                /\ cycle' = [cycle EXCEPT !.i = @ + 1,
                                !.active_pids = Append(@, p.pid)]
    /\ UNCHANGED threads

\* runtime_tracker.mark_missing(active_pids), after the loop
reconcile_cycle(ans) ==
    /\ cycle.pc = "loop"
    /\ cycle.i > Len(cycle.selected)
    /\ mark_missing({cycle.active_pids[k] : k \in 1..Len(cycle.active_pids)}, ans)
    /\ cycle' = [cycle EXCEPT
                    !.pc = IF last'.raised THEN "aborted" ELSE "reconciled"]
    /\ UNCHANGED threads

SelectProcesses ==
    \E handler \in Handlers : \E selected \in Selections :
        select_processes(handler, selected)

PredictItem == \E outcome \in Outcomes : predict_item(outcome)

ReconcileCycle ==
    \E ans \in AnswerMaps({cycle.active_pids[k] : k \in 1..Len(cycle.active_pids)}) :
        reconcile_cycle(ans)

NextFacade ==
    \/ Tick
    \/ SelectProcesses
    \/ PredictItem
    \/ ReconcileCycle

SpecFacade == Init /\ [][NextFacade]_vars

(* --------------------- calls interleaved in threads ------------------- *)
\* runtime_tracker is one object shared by every request (main.py line 17)
\* and has no lock.  predict_for_process and predict_for_top_processes are
\* plain "def" endpoints, which the server runs in threadpool threads, and
\* ws_live runs on the event loop thread, so calls of the tracker interleave
\* between statements.  A thread's call is a sequence of steps, one per
\* statement that reads or writes the shared dict, deque or a record.
ThreadObservations ==
    {[pid |-> 1, name |-> "a", create_time |-> c, predicted |-> 1] : c \in {0, 2}}

ThreadLists == SUBSET {1}

\* update_running, lines 49-50: now = time.time(); record = self._active.get(pid)
ur_get(th, o) ==
    /\ threads[th].pc = "idle"
    /\ threads' = [threads EXCEPT ![th] =
            [IdleThread EXCEPT !.pc = "ur_decide", !.pid = o.pid,
                !.name = o.name, !.ct = o.create_time, !.pred = o.predicted,
                !.t = now, !.rec = ActiveGet(active, o.pid)]]
    /\ UNCHANGED <<now, recs, active, completed, completed_max, closed,
                   last, cycle>>

\* update_running, lines 51-61: replace the record, or refresh the record
\* fetched at line 50
ur_decide(th) ==
    /\ threads[th].pc = "ur_decide"
    /\ LET c == threads[th]
           st == IF c.rec = 0
                 THEN replace_record(Store, c.pid, c.name, c.ct, c.pred, c.t)
                 ELSE IF pid_reused(recs[c.rec], c.ct)
                 THEN replace_record(Store, c.pid, c.name, c.ct, c.pred, c.t)
                 ELSE refresh_record(Store, c.rec, c.name, c.pred, c.t)
       IN  /\ recs' = st.recs
           /\ active' = st.active
           /\ Len(recs') <= MaxRecs
    /\ threads' = [threads EXCEPT ![th] = IdleThread]
    /\ UNCHANGED <<now, completed, completed_max, closed, last, cycle>>

\* mark_missing, lines 64-66: active_set, now, list(self._active.keys())
mm_begin(th, S) ==
    /\ threads[th].pc = "idle"
    /\ threads' = [threads EXCEPT ![th] =
            [IdleThread EXCEPT !.pc = "mm_next", !.S = S, !.t = now,
                !.keys = ActiveKeys(active)]]
    /\ UNCHANGED <<now, recs, active, completed, completed_max, closed,
                   last, cycle>>

\* mark_missing, lines 66-72: the next pid of the snapshot; return after
\* the last
mm_next(th) ==
    /\ threads[th].pc = "mm_next"
    /\ LET c == threads[th] IN
       threads' = [threads EXCEPT ![th] =
            IF c.keys = <<>> THEN IdleThread
            ELSE IF Head(c.keys) \in c.S \/ ActiveGet(active, Head(c.keys)) = 0
            THEN [c EXCEPT !.keys = Tail(@), !.rec = 0, !.checked = 0]
            ELSE [c EXCEPT !.pc = "mm_check", !.pid = Head(c.keys),
                    !.rec = ActiveGet(active, Head(c.keys)), !.checked = 0]]
    /\ UNCHANGED <<now, recs, active, completed, completed_max, closed,
                   last, cycle>>

\* mark_missing, lines 74-88: the liveness check of the pid, compared with
\* the record fetched at line 70
mm_check(th, answer) ==
    /\ threads[th].pc = "mm_check"
    /\ LET c == threads[th] IN
       threads' = [threads EXCEPT ![th] =
            IF answer.kind = "Error" THEN IdleThread
            ELSE IF should_close(answer, recs[c.rec])
            THEN [c EXCEPT !.pc = "mm_pop", !.checked = c.rec]
            ELSE [c EXCEPT !.pc = "mm_next", !.keys = Tail(@)]]
    /\ UNCHANGED <<now, recs, active, completed, completed_max, closed,
                   last, cycle>>

\* mark_missing, lines 91-93: record = self._active.pop(pid, None)
mm_pop(th) ==
    /\ threads[th].pc = "mm_pop"
    /\ LET c == threads[th]
           rid == ActiveGet(active, c.pid)
       IN  /\ active' = ActivePop(active, c.pid)
           /\ threads' = [threads EXCEPT ![th] =
                IF rid = 0
                THEN [c EXCEPT !.pc = "mm_next", !.keys = Tail(@), !.rec = 0]
                ELSE [c EXCEPT !.pc = "mm_stamp", !.rec = rid]]
    /\ UNCHANGED <<now, recs, completed, completed_max, closed, last, cycle>>

\* mark_missing, line 94: record.completed_at = now
mm_stamp(th) ==
    /\ threads[th].pc = "mm_stamp"
    /\ recs' = [recs EXCEPT ![threads[th].rec].completed_at = threads[th].t]
    /\ threads' = [threads EXCEPT ![th].pc = "mm_duration"]
    /\ UNCHANGED <<now, active, completed, completed_max, closed, last, cycle>>

\* mark_missing, line 95: record.actual_duration = max(..., 0.0)
mm_duration(th) ==
    /\ threads[th].pc = "mm_duration"
    /\ LET r == recs[threads[th].rec] IN
       recs' = [recs EXCEPT ![threads[th].rec].actual_duration =
                    Max(r.completed_at - r.create_time, 0)]
    /\ threads' = [threads EXCEPT ![th].pc = "mm_append"]
    /\ UNCHANGED <<now, active, completed, completed_max, closed, last, cycle>>

\* mark_missing, line 96: self._completed.append(record)
mm_append(th) ==
    /\ threads[th].pc = "mm_append"
    /\ completed' = DequeAppend(completed, completed_max, threads[th].rec)
    /\ closed' = Append(closed, threads[th].rec)
    /\ threads' = [threads EXCEPT ![th].pc = "mm_next", ![th].keys = Tail(@)]
    /\ UNCHANGED <<now, recs, active, completed_max, last, cycle>>

\* ws_live line 241: recent_completions() copies the deque ...
rc_list(th) ==
    /\ threads[th].pc = "idle"
    /\ threads' = [threads EXCEPT ![th] =
            [IdleThread EXCEPT !.pc = "rc_read", !.list = completed]]
    /\ UNCHANGED <<now, recs, active, completed, completed_max, closed,
                   last, cycle>>

\* ... and _serialize_completion reads the completion fields of each record
rc_read(th) ==
    /\ threads[th].pc = "rc_read"
    /\ LET c == threads[th] IN
       threads' = [threads EXCEPT ![th] =
            IF c.list = <<>> THEN IdleThread
            ELSE [c EXCEPT !.list = Tail(@),
                    !.seen = <<recs[Head(c.list)].actual_duration,
                               recs[Head(c.list)].completed_at>>]]
    /\ UNCHANGED <<now, recs, active, completed, completed_max, closed,
                   last, cycle>>

UrGet == \E th \in Threads : \E o \in ThreadObservations : ur_get(th, o)
UrDecide == \E th \in Threads : ur_decide(th)
MmBegin == \E th \in Threads : \E S \in ThreadLists : mm_begin(th, S)
MmNext == \E th \in Threads : mm_next(th)
MmCheck == \E th \in Threads : \E answer \in Answers : mm_check(th, answer)
MmPop == \E th \in Threads : mm_pop(th)
MmStamp == \E th \in Threads : mm_stamp(th)
MmDuration == \E th \in Threads : mm_duration(th)
MmAppend == \E th \in Threads : mm_append(th)
RcList == \E th \in Threads : rc_list(th)
RcRead == \E th \in Threads : rc_read(th)

NextThreads ==
    \/ Tick
    \/ UrGet
    \/ UrDecide
    \/ MmBegin
    \/ MmNext
    \/ MmCheck
    \/ MmPop
    \/ MmStamp
    \/ MmDuration
    \/ MmAppend
    \/ RcList
    \/ RcRead

SpecThreads == Init /\ [][NextThreads]_vars

(* ====================================================================== *)
(* Properties                                                             *)
(* ====================================================================== *)
Range(q) == {q[i] : i \in 1..Len(q)}

\* the step from the current state is a call of op (Tick alone moves now)
IsCall(op) == now' = now /\ last'.op = op

IsClosed(r) == r.actual_duration # None

\* how many records were closed after rid, in the log q of closed records
ClosedAfter(q, rid) == Len(q) - (CHOOSE i \in 1..Len(q) : q[i] = rid)

Occurrences(q, x) == Cardinality({i \in 1..Len(q) : q[i] = x})

\* status_for(pid) and current_elapsed(pid) on given fields of the tracker
StatusIn(rs, act, comp, pid) ==
    status_for_of([recs |-> rs, active |-> act, completed |-> comp], pid)

(* ---------------------------------------------------------------------- *)
(* C1. Completion exactly once: no call changes a field of a record that  *)
(* is already closed, a closed record is never again a value of the       *)
(* active set, and update_running for the pid of a closed record returns  *)
(* a different record, which is running.                                  *)
(* ---------------------------------------------------------------------- *)
C1_CompletionExactlyOnce ==
    [][ /\ \A rid \in 1..Len(recs) :
            IsClosed(recs[rid]) =>
                /\ rid <= Len(recs')
                /\ recs'[rid] = recs[rid]
                /\ rid \notin ActiveRids(active')
        /\ IsCall("update_running") =>
                /\ ActiveGet(active', last'.pid) = last'.rid
                /\ last'.rid # 0
                /\ ~IsClosed(recs'[last'.rid])
                /\ \A rid \in 1..Len(recs) :
                        IsClosed(recs[rid]) => last'.rid # rid
      ]_vars

\* a closed record of a pid, and a later update_running of that pid
C1_Witness ==
    /\ last.op = "update_running"
    /\ \E rid \in 1..Len(recs) :
        /\ IsClosed(recs[rid])
        /\ recs[rid].pid = last.pid
        /\ rid \in Range(completed)
        /\ last.rid # rid
        /\ ActiveGet(active, last.pid) = last.rid

(* ---------------------------------------------------------------------- *)
(* C2. Gone closes the record: after a mark_missing call in which the     *)
(* liveness check of an omitted active pid raised NoSuchProcess, the pid  *)
(* is not active, its record has completed_at = now and actual_duration = *)
(* max(now - create_time, 0), status_for(pid) is "completed" and the      *)
(* record is exactly once in recent_completions().                        *)
(* ---------------------------------------------------------------------- *)
C2_GoneClosesRecord ==
    [][ IsCall("mark_missing") =>
            \A p \in Pids : last'.ans[p].kind = "Gone" =>
                LET rid == ActiveGet(active, p) IN
                /\ rid # 0
                /\ ActiveGet(active', p) = 0
                /\ recs'[rid].completed_at = now
                /\ recs'[rid].actual_duration = Max(now - recs[rid].create_time, 0)
                /\ StatusIn(recs', active', completed', p) = "completed"
                /\ Occurrences(completed', rid) = 1
      ]_vars

\* C2 as amended: the record is closed and appended; it is exactly once in
\* recent_completions(), and status_for(pid) is "completed", unless at
\* least completed_max further records were closed after it in that same
\* call, which evicts it from the history before the call returns.
C2_GoneClosesUnlessEvicted ==
    [][ IsCall("mark_missing") =>
            \A p \in Pids : last'.ans[p].kind = "Gone" =>
                LET rid == ActiveGet(active, p) IN
                /\ rid # 0
                /\ ActiveGet(active', p) = 0
                /\ recs'[rid].completed_at = now
                /\ recs'[rid].actual_duration = Max(now - recs[rid].create_time, 0)
                /\ rid \notin Range(closed)
                /\ Occurrences(closed', rid) = 1
                /\ IF ClosedAfter(closed', rid) < completed_max
                   THEN /\ Occurrences(completed', rid) = 1
                        /\ StatusIn(recs', active', completed', p) = "completed"
                   ELSE rid \notin Range(completed')
      ]_vars

\* a pid answered Gone whose record, created after the call's clock reading,
\* is in the history with a clamped duration
C2_Witness ==
    /\ last.op = "mark_missing"
    /\ \E p \in Pids, rid \in 1..Len(recs) :
        /\ last.ans[p].kind = "Gone"
        /\ recs[rid].pid = p
        /\ rid \in Range(completed)
        /\ ActiveGet(active, p) = 0
        /\ recs[rid].completed_at = now
        /\ recs[rid].create_time > now
        /\ recs[rid].actual_duration = 0

(* ---------------------------------------------------------------------- *)
(* C3. Conservative indeterminate: in every mark_missing call in which    *)
(* the liveness check of an omitted active pid raised AccessDenied, the   *)
(* record stays in the active set, unchanged and running, and nothing is  *)
(* appended to the history for it; so it is after each of any number of   *)
(* consecutive such calls.                                                *)
(* ---------------------------------------------------------------------- *)
C3_ConservativeIndeterminate ==
    [][ IsCall("mark_missing") =>
            \A p \in Pids : last'.ans[p].kind = "Denied" =>
                LET rid == ActiveGet(active, p) IN
                /\ rid # 0
                /\ ActiveGet(active', p) = rid
                /\ recs'[rid] = recs[rid]
                /\ status(recs'[rid]) = "running"
                /\ StatusIn(recs', active', completed', p) = "running"
                /\ rid \notin Range(completed')
                /\ rid \notin Range(closed')
      ]_vars

\* a call that answered Denied for one pid and closed another
C3_Witness ==
    /\ last.op = "mark_missing"
    /\ \E p, q \in Pids :
        /\ last.ans[p].kind = "Denied"
        /\ ActiveGet(active, p) # 0
        /\ last.ans[q].kind = "Gone"
        /\ ActiveGet(active, q) = 0

(* ---------------------------------------------------------------------- *)
(* C4. StillAlive with the same identity: when the liveness check of an   *)
(* omitted active pid returns a creation time within 1.0 s of the stored  *)
(* one (exactly 1.0 included), the record stays active and running with   *)
(* every field unchanged and is not appended to the history; when every   *)
(* pid checked in the call answers so, the whole store is unchanged.      *)
(* ---------------------------------------------------------------------- *)
SameIdentity(answer, record) ==
    /\ answer.kind = "Alive"
    /\ answer.ct - record.create_time \in {-1, 0, 1}

C4_StillAliveSameIdentity ==
    [][ IsCall("mark_missing") =>
            /\ \A p \in Pids :
                LET rid == ActiveGet(active, p) IN
                (rid # 0 /\ SameIdentity(last'.ans[p], recs[rid])) =>
                    /\ ActiveGet(active', p) = rid
                    /\ recs'[rid] = recs[rid]
                    /\ status(recs'[rid]) = "running"
                    /\ rid \notin Range(completed')
                    /\ rid \notin Range(closed')
            /\ (\A p \in Pids :
                    \/ last'.ans[p] = NotAsked
                    \/ /\ ActiveGet(active, p) # 0
                       /\ SameIdentity(last'.ans[p], recs[ActiveGet(active, p)]))
                => UNCHANGED <<recs, active, completed, closed>>
      ]_vars

\* a live pid whose answer differs by exactly 1.0 from the stored time
C4_Witness ==
    /\ last.op = "mark_missing"
    /\ \E p \in Pids :
        /\ last.ans[p].kind = "Alive"
        /\ ActiveGet(active, p) # 0
        /\ last.ans[p].ct - recs[ActiveGet(active, p)].create_time \in {-1, 1}

(* ---------------------------------------------------------------------- *)
(* C5. StillAlive with a different identity: when the liveness check of   *)
(* an omitted active pid returns a creation time more than 1.0 s from the *)
(* stored one, the stored record leaves the active set and is appended to *)
(* the history, completed, with completed_at = now and actual_duration =  *)
(* max(now - stored create_time, 0); mark_missing creates no record and   *)
(* leaves no active record under the pid.                                 *)
(* ---------------------------------------------------------------------- *)
C5_StillAliveRecycled ==
    [][ IsCall("mark_missing") =>
            /\ Len(recs') = Len(recs)
            /\ \A p \in Pids :
                LET rid == ActiveGet(active, p) IN
                (/\ rid # 0
                 /\ last'.ans[p].kind = "Alive"
                 /\ ~SameIdentity(last'.ans[p], recs[rid])) =>
                    /\ ActiveGet(active', p) = 0
                    /\ rid \notin ActiveRids(active')
                    /\ status(recs'[rid]) = "completed"
                    /\ recs'[rid].completed_at = now
                    /\ recs'[rid].actual_duration =
                            Max(now - recs[rid].create_time, 0)
                    /\ rid \notin Range(closed)
                    /\ Occurrences(closed', rid) = 1
                    /\ ClosedAfter(closed', rid) < completed_max
                            => Occurrences(completed', rid) = 1
      ]_vars

\* a recycled pid: the answer is 2 s from the record's creation time
C5_Witness ==
    /\ last.op = "mark_missing"
    /\ \E p \in Pids, rid \in 1..Len(recs) :
        /\ last.ans[p].kind = "Alive"
        /\ recs[rid].pid = p
        /\ last.ans[p].ct - recs[rid].create_time \in {-2, 2}
        /\ rid \in Range(completed)
        /\ recs[rid].completed_at = now
        /\ recs[rid].actual_duration = 1
        /\ ActiveGet(active, p) = 0

(* ---------------------------------------------------------------------- *)
(* C6. Identity stability: update_running for a pid with an active record *)
(* and a create_time within 1.0 s of the stored one keeps that one record *)
(* under the pid, leaves first_seen and create_time alone, stores the     *)
(* given name and predicted, and strictly advances last_seen.             *)
(* ---------------------------------------------------------------------- *)
KeysOf(act, pid) == {i \in 1..Len(act) : act[i].pid = pid}

SameRecordKept(p, rid) ==
    /\ ActiveGet(active', p) = rid
    /\ last'.rid = rid
    /\ Cardinality(KeysOf(active', p)) = 1
    /\ Len(recs') = Len(recs)
    /\ recs'[rid].first_seen = recs[rid].first_seen
    /\ recs'[rid].create_time = recs[rid].create_time
    /\ recs'[rid].pid = p
    /\ recs'[rid].name = last'.name
    /\ recs'[rid].predicted = last'.pred
    /\ ~IsClosed(recs'[rid])

C6_IdentityStability ==
    [][ IsCall("update_running") =>
            LET p == last'.pid
                rid == ActiveGet(active, p)
            IN  (rid # 0 /\ last'.ct - recs[rid].create_time \in {-1, 0, 1}) =>
                    /\ SameRecordKept(p, rid)
                    /\ recs'[rid].last_seen > recs[rid].last_seen
      ]_vars

\* C6 as amended: last_seen is set to the clock reading of the call; with a
\* clock that does not go back it never decreases, and it is greater than
\* before exactly when the clock reading is later than the stored last_seen.
C6_IdentityStabilityClock ==
    [][ IsCall("update_running") =>
            LET p == last'.pid
                rid == ActiveGet(active, p)
            IN  (rid # 0 /\ last'.ct - recs[rid].create_time \in {-1, 0, 1}) =>
                    /\ SameRecordKept(p, rid)
                    /\ recs'[rid].last_seen = now
                    /\ recs'[rid].last_seen >= recs[rid].last_seen
                    /\ (recs'[rid].last_seen > recs[rid].last_seen)
                            <=> (now > recs[rid].last_seen)
      ]_vars

\* a record observed again, later, under another name and with a creation
\* time exactly 1.0 s from the stored one
C6_Witness ==
    /\ last.op = "update_running"
    /\ last.rid # 0
    /\ LET r == recs[last.rid] IN
        /\ ActiveGet(active, last.pid) = last.rid
        /\ r.first_seen < r.last_seen
        /\ r.create_time - last.ct \in {-1, 1}
        /\ r.name = "b"
        /\ r.predicted = 2

(* ---------------------------------------------------------------------- *)
(* C7. Reuse detection on observe: update_running for a pid whose active  *)
(* record has a create_time more than 1.0 s from the given one leaves one *)
(* active record for the pid, a new one with the given create_time and    *)
(* first_seen = last_seen = now; the record it replaces is not changed,   *)
(* gets no actual_duration or completed_at and is not appended to the     *)
(* history, in that call or in any later one.                             *)
(* ---------------------------------------------------------------------- *)
\* a record that left the active set without being closed
Abandoned(rs, act, rid) == rid \notin ActiveRids(act) /\ ~IsClosed(rs[rid])

C7_ReuseDetection ==
    [][ /\ IsCall("update_running") =>
            LET p == last'.pid
                old == ActiveGet(active, p)
                new == ActiveGet(active', p)
            IN  (old # 0 /\ last'.ct - recs[old].create_time \notin {-1, 0, 1}) =>
                    /\ Cardinality(KeysOf(active', p)) = 1
                    /\ new = Len(recs) + 1
                    /\ Len(recs') = Len(recs) + 1
                    /\ last'.rid = new
                    /\ recs'[new] = RuntimeRecord(p, last'.name, last'.ct,
                                                  last'.pred, now, now)
                    /\ recs'[old] = recs[old]
                    /\ Abandoned(recs', active', old)
                    /\ old \notin Range(completed')
                    /\ old \notin Range(closed')
        /\ \A rid \in 1..Len(recs) :
            Abandoned(recs, active, rid) =>
                /\ recs'[rid] = recs[rid]
                /\ Abandoned(recs', active', rid)
                /\ rid \notin Range(completed')
                /\ rid \notin Range(closed')
      ]_vars

\* the first incarnation abandoned, the second one closed by a later call
C7_Witness ==
    /\ last.op = "mark_missing"
    /\ \E a, b \in 1..Len(recs) :
        /\ a < b
        /\ recs[a].pid = recs[b].pid
        /\ Abandoned(recs, active, a)
        /\ a \notin Range(completed)
        /\ IsClosed(recs[b])
        /\ b \in Range(completed)
        /\ recs[b].create_time - recs[a].create_time \in {-2, 2}

(* ---------------------------------------------------------------------- *)
(* C8. Bounded history: after N + k completions (k > 0) with capacity N   *)
(* the history has N entries and holds exactly the k most recent          *)
(* completions; it never has more than N entries.                         *)
(* ---------------------------------------------------------------------- *)
\* the last n entries of q
LastN(q, n) == IF Len(q) <= n THEN q ELSE SubSeq(q, Len(q) - n + 1, Len(q))

C8_BoundedHistoryKMostRecent ==
    /\ Len(completed) <= completed_max
    /\ Len(closed) > completed_max =>
        /\ Len(completed) = completed_max
        /\ Range(completed) = Range(LastN(closed, Len(closed) - completed_max))

\* C8 as amended: the history holds exactly the N most recent completions,
\* in completion order (after N + k completions the k oldest are gone); it
\* never has more than N entries, and entries leave it only from its old
\* end, only in a call that appends completions, and only as many of them
\* as the appended completions exceed the room left.
C8_BoundedHistory ==
    [][ /\ Len(completed') <= completed_max
        /\ completed' = LastN(closed', completed_max)
        /\ \A i \in 1..Len(completed) :
            completed[i] \notin Range(completed') =>
                /\ Len(closed') > Len(closed)
                /\ i <= Len(completed) + (Len(closed') - Len(closed))
                            - completed_max
                /\ \A j \in 1..i : completed[j] \notin Range(completed')
      ]_vars

\* three completions with capacity 2: the oldest is evicted, two remain
C8_Witness ==
    /\ last.op = "mark_missing"
    /\ completed_max = 2
    /\ Len(closed) = 3
    /\ completed = <<closed[2], closed[3]>>
    /\ closed[1] \notin Range(completed)

(* ---------------------------------------------------------------------- *)
(* C9. Idempotent reconcile: from every reachable store and for every pid *)
(* set S and every answer of the liveness check per pid, a second         *)
(* mark_missing(S) with the same answers, at the same or a later clock    *)
(* reading, leaves the active set, the history and every record as the    *)
(* first call left them.                                                  *)
(* ---------------------------------------------------------------------- *)
C9_IdempotentReconcile ==
    \A S \in SUBSET Pids : \A ans \in AnswerMaps(S) : \A t2 \in now..MaxTime :
        LET once == mark_loop(Store, ActiveKeys(active), S, ans, now)
            twice == mark_loop([once EXCEPT !.raised = FALSE, !.asked = {}],
                               ActiveKeys(once.active), S, ans, t2)
        IN  /\ twice.active = once.active
            /\ twice.completed = once.completed
            /\ twice.recs = once.recs
            /\ twice.closed = once.closed

\* after a call that closed a recycled pid and kept a live one, which the
\* next call with the same list will check again
C9_Witness ==
    /\ last.op = "mark_missing"
    /\ \E p, q \in Pids :
        /\ last.ans[p].kind = "Alive"
        /\ ActiveGet(active, p) # 0
        /\ last.ans[q].kind = "Alive"
        /\ ActiveGet(active, q) = 0
        /\ Len(completed) > 0
        /\ recs[completed[Len(completed)]].pid = q

(* ---------------------------------------------------------------------- *)
(* C10. Lookup contract: current_elapsed(pid) is max(now - create_time,   *)
(* 0) of the active record when the pid has one, else the actual_duration *)
(* of a history record of the pid when there is one, else None;           *)
(* status_for(pid) is "running", "completed", "unknown" in those cases;   *)
(* a pid never tracked reads None and "unknown".                          *)
(* ---------------------------------------------------------------------- *)
HistoryOf(p) == {r \in Range(completed) : recs[r].pid = p}

C10_LookupContract ==
    [][ /\ IsCall("current_elapsed") =>
            LET p == last'.pid IN
            /\ KeysOf(active, p) # {} =>
                    last'.ret = Max(now - recs[ActiveGet(active, p)].create_time, 0)
            /\ (KeysOf(active, p) = {} /\ HistoryOf(p) # {}) =>
                    /\ last'.ret \in {recs[r].actual_duration : r \in HistoryOf(p)}
                    /\ last'.ret # None
            /\ (KeysOf(active, p) = {} /\ HistoryOf(p) = {}) => last'.ret = None
            /\ (\A rid \in 1..Len(recs) : recs[rid].pid # p) => last'.ret = None
        /\ IsCall("status_for") =>
            LET p == last'.pid IN
            /\ KeysOf(active, p) # {} => last'.sret = "running"
            /\ (KeysOf(active, p) = {} /\ HistoryOf(p) # {}) =>
                    last'.sret = "completed"
            /\ (KeysOf(active, p) = {} /\ HistoryOf(p) = {}) =>
                    last'.sret = "unknown"
            /\ (\A rid \in 1..Len(recs) : recs[rid].pid # p) =>
                    last'.sret = "unknown"
      ]_vars

\* current_elapsed of a pid with an active record and a history record of
\* another duration
C10_Witness ==
    /\ last.op = "current_elapsed"
    /\ KeysOf(active, last.pid) # {}
    /\ HistoryOf(last.pid) # {}
    /\ last.ret = Max(now - recs[ActiveGet(active, last.pid)].create_time, 0)
    /\ \A r \in HistoryOf(last.pid) : recs[r].actual_duration # last.ret

(* ---------------------------------------------------------------------- *)
(* C13. Oracle failures are absorbed: from every reachable store, for     *)
(* every pid list S and every outcome of the liveness check per missing   *)
(* pid (a failure of any kind included), mark_missing(S) raises nothing   *)
(* to its caller, checks every active pid that S omits, and leaves the    *)
(* record of a pid whose check failed active and unchanged.               *)
(* ---------------------------------------------------------------------- *)
MissingFrom(S) == {p \in Pids : ActiveGet(active, p) # 0 /\ p \notin S}

C13_OracleFailuresAbsorbed ==
    \A S \in SUBSET Pids : \A ans \in AnswerMaps(S) :
        LET st == mark_loop(Store, ActiveKeys(active), S, ans, now) IN
        /\ ~st.raised
        /\ st.asked = MissingFrom(S)
        /\ \A p \in MissingFrom(S) :
              ans[p].kind \in {"Error", "Denied"} =>
                  /\ ActiveGet(st.active, p) = ActiveGet(active, p)
                  /\ st.recs[ActiveGet(active, p)] = recs[ActiveGet(active, p)]

(* ---------------------------------------------------------------------- *)
(* C15. Reconcile frame condition: from every reachable store, for every  *)
(* pid list S and whatever the liveness check would answer for any pid,   *)
(* mark_missing(S) leaves each active record whose pid is in S in the     *)
(* active set, at its place, unclosed and with every field unchanged, and *)
(* never asks the liveness check about that pid; and every call           *)
(* update_running(pid, ...) leaves the active record of every other pid   *)
(* and the whole history (its order and its records) unchanged.           *)
(* ---------------------------------------------------------------------- *)
AllAnswerMaps == [Pids -> Answers]

C15_ReconcileFrame ==
    /\ \A S \in SUBSET Pids : \A ans \in AllAnswerMaps :
        LET st == mark_loop(Store, ActiveKeys(active), S, ans, now) IN
        \A p \in S : ActiveGet(active, p) # 0 =>
            LET rid == ActiveGet(active, p) IN
            /\ KeysOf(st.active, p) # {}
            /\ ActiveGet(st.active, p) = rid
            /\ st.recs[rid] = recs[rid]
            /\ rid \notin Range(st.completed)
            /\ Occurrences(st.closed, rid) = 0
            /\ p \notin st.asked
    /\ \A o \in Observations :
        LET st == update_running_store(Store, o.pid, o.name, o.create_time,
                                       o.predicted, now) IN
        /\ \A p \in Pids \ {o.pid} :
            /\ ActiveGet(st.active, p) = ActiveGet(active, p)
            /\ ActiveGet(active, p) # 0 =>
                    st.recs[ActiveGet(active, p)] = recs[ActiveGet(active, p)]
        /\ st.completed = completed
        /\ st.closed = closed
        /\ \A r \in Range(completed) : st.recs[r] = recs[r]

\* after a mark_missing call that closed one pid as gone and kept the other,
\* listed, pid: its record is still active and the check was not asked
C15_Witness ==
    /\ last.op = "mark_missing"
    /\ ~last.raised
    /\ \E p, q \in Pids :
        /\ ActiveGet(active, p) # 0
        /\ last.ans[p].kind = "NotAsked"
        /\ last.ans[q].kind = "Gone"
        /\ ActiveGet(active, q) = 0
        /\ \E r \in Range(completed) : recs[r].pid = q

(* ---------------------------------------------------------------------- *)
(* C16. Active/history partition: in every state reached by sequential    *)
(* update_running and mark_missing calls, every record of the active set  *)
(* is stored under its own pid, once, and has status "running" (neither   *)
(* completion field set); every record of the history has status          *)
(* "completed"; and no record is in both the active set and the history.  *)
(* A pid may have one active record beside history records.               *)
(* ---------------------------------------------------------------------- *)
C16_ActiveHistoryPartition ==
    /\ \A i \in 1..Len(active) :
        /\ active[i].rid \in 1..Len(recs)
        /\ recs[active[i].rid].pid = active[i].pid
        /\ status(recs[active[i].rid]) = "running"
        /\ recs[active[i].rid].actual_duration = None
        /\ recs[active[i].rid].completed_at = None
        /\ \A j \in 1..Len(active) :
                (active[j].pid = active[i].pid \/ active[j].rid = active[i].rid)
                    => j = i
    /\ \A r \in Range(completed) :
        /\ r \in 1..Len(recs)
        /\ status(recs[r]) = "completed"
    /\ ActiveRids(active) \cap Range(completed) = {}

\* a pid with an active record and, from an earlier life, a history record
C16_Witness ==
    \E p \in Pids :
        /\ ActiveGet(active, p) # 0
        /\ HistoryOf(p) # {}
        /\ ActiveGet(active, p) \notin HistoryOf(p)
        /\ last.op \in {"update_running", "mark_missing"}

(* ---------------------------------------------------------------------- *)
(* C19. History lookup with a reused pid: current_elapsed(pid) of a pid   *)
(* that has no active record and one or more records in the history       *)
(* returns the actual_duration of the oldest of them still retained (the  *)
(* one nearest the old end of the deque), also when a later completion of *)
(* the same pid with another duration is retained.                        *)
(* ---------------------------------------------------------------------- *)
HistoryIndexes(p) == {i \in 1..Len(completed) : recs[completed[i]].pid = p}

C19_HistoryLookupOldest ==
    [][ IsCall("current_elapsed") =>
            LET p == last'.pid IN
            (KeysOf(active, p) = {} /\ HistoryIndexes(p) # {}) =>
                \E i \in HistoryIndexes(p) :
                    /\ \A j \in HistoryIndexes(p) : i <= j
                    /\ last'.ret = recs[completed[i]].actual_duration
      ]_vars

\* current_elapsed of a pid closed twice, with two durations: the result
\* is the older one
C19_Witness ==
    /\ last.op = "current_elapsed"
    /\ KeysOf(active, last.pid) = {}
    /\ \E i, j \in HistoryIndexes(last.pid) :
        /\ i < j
        /\ recs[completed[i]].actual_duration # recs[completed[j]].actual_duration
        /\ last.ret = recs[completed[i]].actual_duration

(* ---------------------------------------------------------------------- *)
(* C20. Unknown only after eviction: in sequential use, for a pid that    *)
(* update_running was once called for, status_for(pid) returns "unknown"  *)
(* and current_elapsed(pid) returns None only when the pid has no active  *)
(* record and every record of the pid that was closed has left the        *)
(* history by capacity overflow (at least completed_max records were      *)
(* closed after it); otherwise they return "running" or "completed" and   *)
(* a number.                                                              *)
(* ---------------------------------------------------------------------- *)
Tracked(p) == \E rid \in 1..Len(recs) : recs[rid].pid = p

ClosedOf(p) == {rid \in 1..Len(recs) : recs[rid].pid = p /\ IsClosed(recs[rid])}

Evicted(rid) ==
    /\ rid \in Range(closed)
    /\ rid \notin Range(completed)
    /\ ClosedAfter(closed, rid) >= completed_max

AllEvicted(p) ==
    /\ KeysOf(active, p) = {}
    /\ ClosedOf(p) # {}
    /\ \A rid \in ClosedOf(p) : Evicted(rid)

C20_UnknownOnlyAfterEviction ==
    [][ /\ IsCall("status_for") /\ Tracked(last'.pid) =>
            IF AllEvicted(last'.pid)
            THEN last'.sret = "unknown"
            ELSE last'.sret \in {"running", "completed"}
        /\ IsCall("current_elapsed") /\ Tracked(last'.pid) =>
            IF AllEvicted(last'.pid)
            THEN last'.ret = None
            ELSE last'.ret # None /\ last'.ret >= 0
      ]_vars

\* status_for of a pid whose only completion was pushed out of a full
\* history by a later completion
C20_Witness ==
    /\ last.op = "status_for"
    /\ last.sret = "unknown"
    /\ Tracked(last.pid)
    /\ AllEvicted(last.pid)
    /\ Len(completed) = completed_max

(* ---------------------------------------------------------------------- *)
(* C11. Facade contract on observed pids: at the end of every polling     *)
(* cycle of predict_for_top_processes and of ws_live that reached         *)
(* mark_missing, every process the cycle enumerated has its pid in the    *)
(* list that was passed to mark_missing, whether or not feature           *)
(* extraction or prediction succeeded for it.                             *)
(* ---------------------------------------------------------------------- *)
C11_FacadePassesEveryLivePid ==
    cycle.pc = "reconciled" =>
        \A k \in 1..Len(cycle.selected) :
            cycle.selected[k].pid \in Range(cycle.active_pids)

(* ---------------------------------------------------------------------- *)
(* C12. Serialized mutation: with several requests driving the shared     *)
(* tracker, executions of update_running and mark_missing are mutually    *)
(* exclusive: while one thread is between the first and the last step of  *)
(* such a call, no other thread takes a step of such a call.              *)
(* ---------------------------------------------------------------------- *)
MutatingPcs ==
    {"ur_decide", "mm_next", "mm_check", "mm_pop", "mm_stamp", "mm_duration",
     "mm_append"}

C12_SerializedMutation ==
    [][ \A a, b \in Threads :
            (a # b /\ threads[b].pc \in MutatingPcs /\ threads'[a] # threads[a])
                => /\ threads[a].pc \notin MutatingPcs
                   /\ threads'[a].pc \notin MutatingPcs
      ]_vars

(* ---------------------------------------------------------------------- *)
(* C14. Completion fields are set together: in every state, interleaved   *)
(* ones included, every record reachable from the active set or from the  *)
(* history has actual_duration and completed_at both unset or both set,   *)
(* and a reader that serialises recent_completions() while a mark_missing *)
(* is in progress reads them both unset or both set.  (current_elapsed    *)
(* and status_for read actual_duration alone, lines 20-28; the reader of  *)
(* both fields is _serialize_completion over recent_completions().)       *)
(* ---------------------------------------------------------------------- *)
SetTogether(actual_duration, completed_at) ==
    (actual_duration = None) <=> (completed_at = None)

C14_CompletionFieldsTogether ==
    /\ \A rid \in ActiveRids(active) \cup Range(completed) :
            SetTogether(recs[rid].actual_duration, recs[rid].completed_at)
    /\ \A th \in Threads :
            threads[th].seen # <<>> =>
                SetTogether(threads[th].seen[1], threads[th].seen[2])
    /\ \A th \in Threads : \A rid \in Range(threads[th].list) :
            SetTogether(recs[rid].actual_duration, recs[rid].completed_at)

\* a reader has read a completed record while another thread's mark_missing
\* has set completed_at, and not yet actual_duration, of a second record
C14_Witness ==
    \E th, other \in Threads :
        /\ threads[th].pc = "rc_read"
        /\ threads[th].seen # <<>>
        /\ threads[th].seen[1] # None
        /\ threads[other].pc = "mm_duration"
        /\ recs[threads[other].rec].completed_at # None
        /\ recs[threads[other].rec].actual_duration = None

(* ---------------------------------------------------------------------- *)
(* C17. Closed record is the checked record: when mark_missing interleaves *)
(* with update_running, the record mark_missing pops and completes for a  *)
(* pid is the record whose create_time it compared with the liveness      *)
(* answer, never a record installed for the pid in between.               *)
(* ---------------------------------------------------------------------- *)
C17_ClosedIsChecked ==
    \A th \in Threads :
        threads[th].pc \in {"mm_stamp", "mm_duration", "mm_append"} =>
            threads[th].rec = threads[th].checked

(* ---------------------------------------------------------------------- *)
(* C18. No double completion under interleaving: when mark_missing calls  *)
(* interleave and more than one of them decides to close the same pid,    *)
(* the record is appended to the history at most once and its             *)
(* completed_at and actual_duration, once written, are not written again. *)
(* ---------------------------------------------------------------------- *)
C18_NoDoubleCompletion ==
    [][ \A rid \in 1..Len(recs) :
            /\ Occurrences(closed', rid) <= 1
            /\ Occurrences(completed', rid) <= 1
            /\ recs[rid].completed_at # None =>
                    recs'[rid].completed_at = recs[rid].completed_at
            /\ recs[rid].actual_duration # None =>
                    recs'[rid].actual_duration = recs[rid].actual_duration
            /\ \A th \in Threads :
                    (threads[th].pc \in {"mm_stamp", "mm_duration"}
                        /\ recs'[rid] # recs[rid] /\ threads[th].rec = rid
                        /\ threads'[th] # threads[th])
                    => rid \notin Range(closed)
      ]_vars

\* two mark_missing calls decided to close the same record; one completed
\* it, and the pop of the other, at a later clock reading, found nothing
C18_Witness ==
    \E th, other \in Threads :
        /\ th # other
        /\ threads[th].pc = "mm_next"
        /\ threads[th].checked # 0
        /\ threads[th].rec = 0
        /\ threads[other].pc = "mm_next"
        /\ threads[other].checked = threads[th].checked
        /\ threads[other].rec = threads[th].checked
        /\ Occurrences(closed, threads[th].checked) = 1
        /\ threads[th].t # threads[other].t

====
